---- MODULE Spec2Model ----
(***************************************************************************)
(* A model of tf-registry (src/main.go): a read-only Terraform module      *)
(* registry that maps protocol paths onto an fs.FS view of an S3 bucket.   *)
(*                                                                         *)
(* A path string is a record [abs, segs]: the string is "/" (when abs)     *)
(* followed by the segments joined with "/".  "" is [FALSE, <<>>]; a       *)
(* trailing slash is a last segment "".                                    *)
(***************************************************************************)
EXTENDS Integers, Sequences, FiniteSets, TLC

VARIABLES
    pc,          \* position of main(): "flags", "session", "stat", "listen", "serving", "exited"
    exitCode,    \* exit status once pc = "exited", -1 before
    bucket,      \* global bucket (flag -bucket)
    prefix,      \* global prefix (flag -prefix), a path string
    s3fsys,      \* global s3fsys: "nil" until s3fs.New, then "s3fs"
    store,       \* the bucket's contents (external, fixed while the server runs)
    inflight,    \* per worker goroutine: the request being handled, or NoRequest
    last,        \* the most recently completed exchange [req, resp], or NoExchange
    handled,     \* number of requests handled so far, capped at 1
    mainErr      \* main's err: "unset", then "nil" or the call that failed

vars == <<pc, exitCode, bucket, prefix, s3fsys, store, inflight, last, handled, mainErr>>

----------------------------------------------------------------------------
(* Bounds *)

\* longest directory listing the backend returns for the module directory
MaxEntries == 3
\* number of concurrently running handler goroutines
NumWorkers == 2

----------------------------------------------------------------------------
(* Strings and paths *)

EmptyStr == [abs |-> FALSE, segs |-> <<>>]

\* a separator-free string as a path string
Str(s) == IF s = "" THEN EmptyStr ELSE [abs |-> FALSE, segs |-> <<s>>]

RECURSIVE JoinSegs(_)
\* strings.Join(segs, "/")
JoinSegs(segs) ==
    IF segs = <<>> THEN ""
    ELSE IF Len(segs) = 1 THEN segs[1]
    ELSE segs[1] \o "/" \o JoinSegs(Tail(segs))

\* the text of a path string
Text(p) == (IF p.abs THEN "/" ELSE "") \o JoinSegs(p.segs)

RECURSIVE CleanSegs(_, _, _)
\* the element loop of path.Clean / filepath.Clean: out is the output so far
CleanSegs(rooted, segs, out) ==
    IF segs = <<>> THEN out
    ELSE LET s == Head(segs)
             rest == Tail(segs)
         IN  IF s = "" \/ s = "." THEN CleanSegs(rooted, rest, out)
             ELSE IF s = ".."
                  THEN IF out # <<>> /\ out[Len(out)] # ".."
                       THEN CleanSegs(rooted, rest, SubSeq(out, 1, Len(out) - 1))
                       ELSE IF rooted THEN CleanSegs(rooted, rest, out)
                       ELSE CleanSegs(rooted, rest, Append(out, ".."))
                  ELSE CleanSegs(rooted, rest, Append(out, s))

\* filepath.Clean (and path.Clean): the shortest equivalent path
Clean(p) ==
    LET out == CleanSegs(p.abs, p.segs, <<>>)
    IN  IF out = <<>> /\ ~p.abs THEN [abs |-> FALSE, segs |-> <<".">>]
        ELSE [abs |-> p.abs, segs |-> out]

RECURSIVE ConcatSegs(_)
ConcatSegs(elems) ==
    IF elems = <<>> THEN <<>> ELSE Head(elems).segs \o ConcatSegs(Tail(elems))

\* filepath.Join: drop empty elements, join with "/", Clean
Join(elems) ==
    LET ne == SelectSeq(elems, LAMBDA e : e # EmptyStr)
    IN  IF ne = <<>> THEN EmptyStr
        ELSE Clean([abs |-> ne[1].abs, segs |-> ConcatSegs(ne)])

\* a name made of ordinary segments only (fs.ValidPath, apart from ".")
PlainSegs(segs) == \A i \in 1..Len(segs) : segs[i] \notin {"", ".", ".."}

IsPrefixOf(a, b) == Len(a) <= Len(b) /\ SubSeq(b, 1, Len(a)) = a

----------------------------------------------------------------------------
(* The storage backend behind the fs.FS handle.  store is a record:        *)
(*   objects   the keys that hold an object (a key is a sequence of        *)
(*             segments); the object at key k holds the bytes Bytes(k)     *)
(*   dirs      the keys that are directories (every proper prefix of an    *)
(*             object key, the root, and possibly an empty directory)      *)
(*   moduleDir the module/provider directory of the bucket                 *)
(*   listing   the entry names the backend returns for moduleDir, in the   *)
(*             backend's order                                             *)

Bytes(key) == [kind |-> "bytes", key |-> key]

RECURSIVE SeqOf(_)
\* the elements of a finite set in the backend's (fixed) order
SeqOf(S) ==
    IF S = {} THEN <<>>
    ELSE LET x == CHOOSE y \in S : TRUE IN <<x>> \o SeqOf(S \ {x})

Children(st, d) ==
    { k[Len(d) + 1] : k \in { j \in st.objects \cup st.dirs :
                                  IsPrefixOf(d, j) /\ Len(j) > Len(d) } }

\* fs.ValidPath: unrooted, no empty, "." or ".." element; or exactly "."
ValidPath(name) ==
    \/ name = [abs |-> FALSE, segs |-> <<".">>]
    \/ ~name.abs /\ name.segs # <<>> /\ PlainSegs(name.segs)

KeyOf(name) == IF name.segs = <<".">> THEN <<>> ELSE name.segs

\* s3fsys.Open(name): a file when an object has the key, a directory when
\* keys lie below it, fs.ErrNotExist otherwise
FSOpen(st, name) ==
    IF ~ValidPath(name) THEN [err |-> "invalid argument", isDir |-> FALSE, key |-> <<>>]
    ELSE LET key == KeyOf(name)
         IN  IF key \in st.objects THEN [err |-> "", isDir |-> FALSE, key |-> key]
             ELSE IF key \in st.dirs THEN [err |-> "", isDir |-> TRUE, key |-> key]
             ELSE [err |-> "file does not exist", isDir |-> FALSE, key |-> key]

\* fs.ReadDir(s3fsys, name): the entry names, or the error
FSReadDir(st, name) ==
    LET o == FSOpen(st, name)
    IN  IF o.err # "" THEN [err |-> o.err, entries |-> <<>>]
        ELSE IF ~o.isDir THEN [err |-> "not implemented", entries |-> <<>>]
        ELSE IF o.key = st.moduleDir THEN [err |-> "", entries |-> st.listing]
        ELSE [err |-> "", entries |-> SeqOf(Children(st, o.key))]

----------------------------------------------------------------------------
(* http.ResponseWriter *)

HeaderNames ==
    {"Content-Type", "Content-Encoding", "X-Terraform-Get", "Location",
     "X-Content-Type-Options"}

\* "" stands for a header that is not set
NoHeaders == [h \in HeaderNames |-> ""]

NewWriter ==
    [wrote |-> FALSE, status |-> 0, sent |-> NoHeaders, hdr |-> NoHeaders, body |-> <<>>]

\* w.Header().Set(k, v)
SetHeader(w, k, v) == [w EXCEPT !.hdr[k] = v]

\* w.WriteHeader(code): the first call sends the status and the headers set so far
WriteHeader(w, code) ==
    IF w.wrote THEN w
    ELSE [w EXCEPT !.wrote = TRUE, !.status = code, !.sent = w.hdr]

\* w.Write(chunk): an implicit WriteHeader(200); no body with 204 and 304
Write(w, chunk) ==
    LET w1 == WriteHeader(w, 200)
    IN  IF w1.status \in {204, 304} THEN w1
        ELSE [w1 EXCEPT !.body = Append(@, chunk)]

TextChunk(t) == [kind |-> "text", text |-> t]
JsonChunk(d) == [kind |-> "json", doc |-> d]

\* http.Error(w, msg, code)
HttpError(w, msg, code) ==
    LET w1 == SetHeader(w, "Content-Type", "text/plain; charset=utf-8")
        w2 == SetHeader(w1, "X-Content-Type-Options", "nosniff")
    IN  Write(WriteHeader(w2, code), TextChunk(msg))

\* what the client receives once the handler returns; a HEAD response has no body
Finish(h, method, handler) ==
    LET w == WriteHeader(h.w, 200)
    IN  [status  |-> w.status,
         headers |-> w.sent,
         body    |-> IF method = "HEAD" THEN <<>> ELSE w.body,
         ops     |-> h.ops,
         handler |-> handler]

----------------------------------------------------------------------------
(* JSON values written by encoding/json *)

\* a nil slice encodes as null, a non-nil slice as an array
JNull == [kind |-> "null", elems |-> <<>>]
JArray(elems) == [kind |-> "array", elems |-> elems]

\* append(s, x) on a possibly nil slice
JAppend(s, x) == JArray(Append(s.elems, x))

ModuleBaseSegs == <<"terraform", "modules", "v1">>

\* const ModuleBasePath
ModuleBasePath == "/" \o JoinSegs(ModuleBaseSegs)

----------------------------------------------------------------------------
(* Handlers.  A handler works on h = [w, ops, prefix]: the response        *)
(* writer, the storage operations performed so far, and the value of the   *)
(* global prefix when the handler returns.                                 *)

NewHandling(pfx) == [w |-> NewWriter, ops |-> <<>>, prefix |-> pfx]

StorageOp(op, name) == [op |-> op, path |-> Text(name)]

RECURSIVE AppendVersions(_, _)
\* the loop of getModuleVersions: one {"version": v.Name()} per entry, in order
AppendVersions(versions, entries) ==
    IF entries = <<>> THEN versions
    ELSE AppendVersions(JAppend(versions, [version |-> Head(entries)]), Tail(entries))

\* getModuleVersions(modPath)
GetModuleVersions(st, modPath) ==
    LET rd == FSReadDir(st, modPath)
    IN  IF rd.err # "" THEN [resp |-> [modules |-> JNull], err |-> rd.err]
        ELSE LET m == [versions |-> AppendVersions(JNull, rd.entries)]
             IN  [resp |-> [modules |-> JArray(<<m>>)], err |-> ""]

\* httpGetServiceDiscovery advertising the base path below the storage prefix
HttpGetServiceDiscoveryPrefixed(h) ==
    LET s == [modulesV1 |-> ModuleBasePath \o Text(h.prefix)]
        w1 == SetHeader(h.w, "Content-Type", "application/json")
    IN  [h EXCEPT !.w = Write(w1, JsonChunk(s))]

\* httpGetServiceDiscovery
HttpGetServiceDiscovery(h) ==
    LET s == [modulesV1 |-> ModuleBasePath]
        w1 == SetHeader(h.w, "Content-Type", "application/json")
    IN  [h EXCEPT !.w = Write(w1, JsonChunk(s))]

\* httpGetVersions joining the path without the prefix
HttpGetVersionsNoPrefix(h, st, m) ==
    LET modPath == Join(<<Str(m.namespace), Str(m.name), Str(m.provider)>>)
        got == GetModuleVersions(st, modPath)
        w1 == IF got.err # "" THEN HttpError(h.w, got.err, 500) ELSE h.w
        w2 == SetHeader(w1, "Content-Type", "application/json")
    IN  [h EXCEPT !.w = Write(w2, JsonChunk(got.resp)),
                  !.ops = Append(@, StorageOp("ReadDir", modPath))]

\* httpGetVersions assigning the joined path to the global prefix
HttpGetVersionsSetsPrefix(h, st, m) ==
    LET modPath == Join(<<h.prefix, Str(m.namespace), Str(m.name), Str(m.provider)>>)
        got == GetModuleVersions(st, modPath)
        w1 == IF got.err # "" THEN HttpError(h.w, got.err, 500) ELSE h.w
        w2 == SetHeader(w1, "Content-Type", "application/json")
    IN  [h EXCEPT !.w = Write(w2, JsonChunk(got.resp)),
                  !.ops = Append(@, StorageOp("ReadDir", modPath)),
                  !.prefix = modPath]

\* httpGetVersions; m holds the URL parameters namespace, name, provider
HttpGetVersions(h, st, m) ==
    LET modPath == Join(<<h.prefix, Str(m.namespace), Str(m.name), Str(m.provider)>>)
        got == GetModuleVersions(st, modPath)
        w1 == IF got.err # "" THEN HttpError(h.w, got.err, 500) ELSE h.w
        w2 == SetHeader(w1, "Content-Type", "application/json")
    IN  [h EXCEPT !.w = Write(w2, JsonChunk(got.resp)),
                  !.ops = Append(@, StorageOp("ReadDir", modPath))]

\* httpGetDownloadURL naming the archive after the version
HttpGetDownloadURLVersionFile(h, m) ==
    LET tfGetHeader == Join(<<[abs |-> TRUE, segs |-> <<"download">>],
                              Str(m.namespace), Str(m.name), Str(m.provider),
                              Str(m.version), Str(m.version \o ".tgz")>>)
        w1 == SetHeader(h.w, "X-Terraform-Get", Text(tfGetHeader))
    IN  [h EXCEPT !.w = WriteHeader(w1, 204)]

\* httpGetDownloadURL; m holds namespace, name, provider, version
HttpGetDownloadURL(h, m) ==
    LET tfGetHeader == Join(<<[abs |-> TRUE, segs |-> <<"download">>],
                              Str(m.namespace), Str(m.name), Str(m.provider),
                              Str(m.version), Str(m.name \o ".tgz")>>)
        w1 == SetHeader(h.w, "X-Terraform-Get", Text(tfGetHeader))
    IN  [h EXCEPT !.w = WriteHeader(w1, 204)]


\* path.Base of a request path: its last non-empty element, "/" when there is none
Base(segs) ==
    LET ne == SelectSeq(segs, LAMBDA x : x # "")
    IN  IF ne = <<>> THEN "/" ELSE ne[Len(ne)]

\* localRedirect(w, r, newPath)
LocalRedirect(w, newPath) == WriteHeader(SetHeader(w, "Location", newPath), 301)

\* toHTTPError
ToHTTPError(w, err) ==
    IF err = "file does not exist" THEN HttpError(w, "404 page not found", 404)
    ELSE HttpError(w, "500 Internal Server Error", 500)

\* the name http.FS hands to s3fsys.Open for a cleaned, rooted name
IoFSName(name) ==
    IF name.segs = <<>> THEN [abs |-> FALSE, segs |-> <<".">>]
    ELSE [abs |-> FALSE, segs |-> name.segs]

\* http.FileServer(http.FS(s3fsys)).ServeHTTP with r.URL.Path = url:
\* serveFile(w, r, fs, path.Clean(url), true)
FileServer(h, st, url) ==
    LET last_ == IF url.segs = <<>> THEN "" ELSE url.segs[Len(url.segs)]
        name == IoFSName(Clean(url))
        o == FSOpen(st, name)
        opened == [h EXCEPT !.ops = Append(@, StorageOp("Open", name))]
        index == [abs |-> FALSE, segs |-> o.key \o <<"index.html">>]
        oi == FSOpen(st, index)
        openedIdx == [opened EXCEPT !.ops = Append(@, StorageOp("Open", index))]
    IN  IF last_ = "index.html" THEN [h EXCEPT !.w = LocalRedirect(h.w, "./")]
        ELSE IF o.err # "" THEN [opened EXCEPT !.w = ToHTTPError(h.w, o.err)]
        ELSE IF o.isDir /\ last_ # ""
             THEN [opened EXCEPT !.w = LocalRedirect(h.w, Base(url.segs) \o "/")]
        ELSE IF ~o.isDir /\ last_ = ""
             THEN [opened EXCEPT !.w = LocalRedirect(h.w, "../" \o Base(url.segs))]
        ELSE IF ~o.isDir
             THEN [opened EXCEPT !.w = Write(h.w, Bytes(o.key)),
                                 !.ops = Append(@, StorageOp("Read", name))]
        ELSE IF oi.err = "" /\ ~oi.isDir
             THEN [openedIdx EXCEPT !.w = Write(h.w, Bytes(oi.key)),
                                    !.ops = Append(@, StorageOp("Read", index))]
        ELSE [openedIdx EXCEPT
                 !.w = Write(SetHeader(h.w, "Content-Type", "text/html; charset=utf-8"),
                             [kind |-> "html", entries |-> FSReadDir(st, name).entries]),
                 !.ops = Append(@, StorageOp("ReadDir", name))]

\* httpGetModule serving the request path without stripping /download/
HttpGetModuleNoStrip(h, st, path) ==
    LET w1 == SetHeader(h.w, "Content-Encoding", "application/octet-stream")
        w2 == SetHeader(w1, "Content-Type", "application/x-gzip")
    IN  FileServer([h EXCEPT !.w = w2], st, [abs |-> TRUE, segs |-> path])

\* httpGetModule; path is the request path, which the route roots at /download/
HttpGetModule(h, st, path) ==
    LET w1 == SetHeader(h.w, "Content-Encoding", "application/octet-stream")
        w2 == SetHeader(w1, "Content-Type", "application/x-gzip")
        h2 == [h EXCEPT !.w = w2]
    IN  IF Len(path) >= 2 /\ path[1] = "download"
        THEN FileServer(h2, st, [abs |-> TRUE, segs |-> Tail(path)])
        ELSE [h2 EXCEPT !.w = HttpError(w2, "404 page not found", 404)]

----------------------------------------------------------------------------
(* The chi router of main() *)

\* the route whose pattern matches the path, with its URL parameters
MatchRoute(path) ==
    LET none == [namespace |-> "", name |-> "", provider |-> "", version |-> ""]
        n == Len(path)
        b == Len(ModuleBaseSegs)
    IN  IF path = <<>> \/ path = <<".well-known", "terraform.json">>
        THEN [route |-> "discovery", m |-> none]
        ELSE IF n = b + 4 /\ IsPrefixOf(ModuleBaseSegs, path) /\ path[n] = "versions"
        THEN [route |-> "versions",
              m |-> [none EXCEPT !.namespace = path[b + 1], !.name = path[b + 2],
                                 !.provider = path[b + 3]]]
        ELSE IF n = b + 5 /\ IsPrefixOf(ModuleBaseSegs, path) /\ path[n] = "download"
        THEN [route |-> "locate",
              m |-> [namespace |-> path[b + 1], name |-> path[b + 2],
                     provider |-> path[b + 3], version |-> path[b + 4]]]
        ELSE IF n >= 2 /\ path[1] = "download"
        THEN [route |-> "module", m |-> none]
        ELSE [route |-> "none", m |-> none]

\* a router that dispatches every method to the GET handlers
RouteMethodAny(method) == "GET"

\* middleware.GetHead: a HEAD request with no HEAD route is routed as a GET
RouteMethod(method) == IF method = "HEAD" THEN "GET" ELSE method

\* the handler chain for one request: the response and the globals it leaves
ServeHTTP(req, pfx, st) ==
    LET h == NewHandling(pfx)
        r == MatchRoute(req.path)
        done(hh, handler) == [resp |-> Finish(hh, req.method, handler), prefix |-> hh.prefix]
    IN  IF req.method \in {"GET", "HEAD"} /\ req.path = <<"is_alive">>
        THEN done([h EXCEPT !.w = Write(SetHeader(h.w, "Content-Type", "text/plain"),
                                        TextChunk("."))], "heartbeat")
        ELSE IF r.route = "none"
        THEN done([h EXCEPT !.w = HttpError(h.w, "404 page not found", 404)], "notFound")
        ELSE IF RouteMethod(req.method) # "GET"
        THEN done([h EXCEPT !.w = WriteHeader(h.w, 405)], "methodNotAllowed")
        ELSE IF r.route = "discovery"
        THEN done(HttpGetServiceDiscovery(h), "httpGetServiceDiscovery")
        ELSE IF r.route = "versions"
        THEN done(HttpGetVersions(h, st, r.m), "httpGetVersions")
        ELSE IF r.route = "locate"
        THEN done(HttpGetDownloadURL(h, r.m), "httpGetDownloadURL")
        ELSE done(HttpGetModule(h, st, req.path), "httpGetModule")

----------------------------------------------------------------------------
(* Inputs: bucket contents, flag values, requests *)

\* the module/provider pair the bucket holds, and the names of its versions
Module == <<"acme", "vpc", "aws">>
VersionNames == {"1.0.0", "2.0.0"}

\* where the uploader rooted the modules: the bucket root or under "modules"
Roots == {<<>>, <<"modules">>}

\* objects of the bucket that are no module artifacts
ExtraObjects == {<<"docs", "index.html">>, <<"docs", "readme.txt">>}

Range(f) == { f[i] : i \in DOMAIN f }

Listings == UNION { [1..n -> VersionNames] : n \in 0..MaxEntries }

ProperPrefixes(k) == { SubSeq(k, 1, n) : n \in 0..(Len(k) - 1) }

\* a bucket: one artifact <root>/acme/vpc/aws/<v>/vpc.tgz per listed version
MakeStore(root, listing, hasDir) ==
    LET objs == { root \o Module \o <<v, "vpc.tgz">> : v \in Range(listing) }
                    \cup ExtraObjects
        modDir == root \o Module
    IN  [objects   |-> objs,
         dirs      |-> UNION { ProperPrefixes(k) : k \in objs }
                           \cup (IF hasDir THEN ProperPrefixes(modDir) \cup {modDir} ELSE {}),
         moduleDir |-> modDir,
         listing   |-> listing]

\* a missing module directory lists nothing; an existing one may be empty
Stores ==
    { MakeStore(c[1], c[2], c[3]) :
        c \in { t \in Roots \X Listings \X BOOLEAN : t[3] \/ t[2] = <<>> } }

BucketFlags == {"", "tf-registry-storage"}

\* values of -prefix: unset, "modules", "modules/"
PrefixFlags ==
    {EmptyStr, [abs |-> FALSE, segs |-> <<"modules">>],
     [abs |-> FALSE, segs |-> <<"modules", "">>]}

Methods == {"GET", "HEAD", "POST"}

NamespaceInputs == {"acme", ".", ".."}
NameInputs == {"vpc", ".."}
ProviderInputs == {"aws", "."}
VersionInputs == {"1.0.0", "2.0.0", ".."}

VersionsPaths ==
    { ModuleBaseSegs \o <<ns, nm, pr, "versions">> :
        ns \in NamespaceInputs, nm \in NameInputs, pr \in ProviderInputs }

LocatePaths ==
    { ModuleBaseSegs \o <<ns, nm, pr, v, "download">> :
        ns \in NamespaceInputs, nm \in NameInputs, pr \in ProviderInputs,
        v \in VersionInputs }

\* keys requested below /download/
KeyInputs ==
    { root \o Module \o <<v, "vpc.tgz">> : root \in Roots, v \in VersionNames }
    \cup { <<"">>, <<"acme">>, <<"acme", "">>, <<"docs">>, <<"docs", "">>,
           <<"docs", "index.html">>, <<"docs", "readme.txt">>,
           <<"docs", "readme.txt", "">>, <<"docs", "..", "docs", "readme.txt">>,
           <<"..", "docs", "readme.txt">>, <<"index.html">>, <<"missing.tgz">>,
           <<"acme", "vpc", "aws", "1.0.0", "index.html">> }

ModulePaths == { <<"download">> \o k : k \in KeyInputs }

RequestPaths ==
    {<<>>, <<".well-known", "terraform.json">>, <<"is_alive">>, <<"nope">>}
    \cup VersionsPaths \cup LocatePaths \cup ModulePaths

Requests == [method : Methods, path : RequestPaths]

\* the requests of the concurrent specification: one per route
ConcRequests ==
    [method : {"GET"},
     path : {<<>>,
             ModuleBaseSegs \o <<"acme", "vpc", "aws", "versions">>,
             ModuleBaseSegs \o <<"acme", "vpc", "aws", "1.0.0", "download">>,
             <<"download", "acme", "vpc", "aws", "1.0.0", "vpc.tgz">>,
             <<"download", "modules", "acme", "vpc", "aws", "1.0.0", "vpc.tgz">>}]

Workers == 1..NumWorkers

NoRequest == [method |-> "", path |-> <<>>]
NoResponse ==
    [status |-> 0, headers |-> NoHeaders, body |-> <<>>, ops |-> <<>>, handler |-> ""]
NoExchange == [req |-> NoRequest, resp |-> NoResponse]

----------------------------------------------------------------------------
(* main() and the serving of requests *)

Init ==
    /\ pc = "flags"
    /\ exitCode = -1
    /\ bucket = ""
    /\ prefix = EmptyStr
    /\ s3fsys = "nil"
    /\ store \in Stores
    /\ inflight = [w \in Workers |-> NoRequest]
    /\ last = NoExchange
    /\ handled = 0
    /\ mainErr = "unset"

\* os.Exit(code)
Exit(code) == pc' = "exited" /\ exitCode' = code

\* flag.Parse()
ParseFlags ==
    /\ pc = "flags"
    /\ bucket' \in BucketFlags
    /\ prefix' \in PrefixFlags
    /\ pc' = "bucket"
    /\ UNCHANGED <<exitCode, s3fsys, store, inflight, last, handled, mainErr>>

\* the bucket check reporting the missing name and going on
CheckBucketNoExit ==
    /\ pc = "bucket"
    /\ pc' = "session"
    /\ UNCHANGED <<exitCode, bucket, prefix, s3fsys, store, inflight, last, handled, mainErr>>

\* if bucket == "" { ...; os.Exit(1) }
CheckBucket ==
    /\ pc = "bucket"
    /\ IF bucket = "" THEN Exit(1) ELSE pc' = "session" /\ UNCHANGED exitCode
    /\ UNCHANGED <<bucket, prefix, s3fsys, store, inflight, last, handled, mainErr>>

\* session.NewSessionWithOptions: succeeds or fails with the environment
NewSession ==
    /\ pc = "session"
    /\ \E ok \in BOOLEAN :
          IF ok THEN pc' = "stat" /\ mainErr' = "nil" /\ UNCHANGED exitCode
          ELSE mainErr' = "session" /\ Exit(1)
    /\ UNCHANGED <<bucket, prefix, s3fsys, store, inflight, last, handled>>

\* s3fsys = s3fs.New(...); fs.Stat(s3fsys, "."): fails when the backend is
\* unreachable or refuses the credentials
StatRoot ==
    /\ pc = "stat"
    /\ s3fsys' = "s3fs"
    /\ \E ok \in BOOLEAN :
          IF ok THEN pc' = "listen" /\ mainErr' = "nil" /\ UNCHANGED exitCode
          ELSE mainErr' = "stat" /\ Exit(1)
    /\ UNCHANGED <<bucket, prefix, store, inflight, last, handled>>

\* router setup and http.ListenAndServe: serves, or returns at once when the
\* port cannot be bound and main returns
ListenAndServe ==
    /\ pc = "listen"
    /\ \E ok \in BOOLEAN :
          IF ok THEN pc' = "serving" /\ UNCHANGED exitCode ELSE Exit(0)
    /\ UNCHANGED <<bucket, prefix, s3fsys, store, inflight, last, handled, mainErr>>

\* one request handled from the router to the response
Serve(req) ==
    /\ pc = "serving"
    /\ last = NoExchange
    /\ LET out == ServeHTTP(req, prefix, store)
       IN  /\ last' = [req |-> req, resp |-> out.resp]
           /\ prefix' = out.prefix
    /\ handled' = 1
    /\ UNCHANGED <<pc, exitCode, bucket, s3fsys, store, inflight, mainErr>>

\* the response has gone out; the server waits for the next request
Deliver ==
    /\ pc = "serving"
    /\ last # NoExchange
    /\ last' = NoExchange
    /\ UNCHANGED <<pc, exitCode, bucket, prefix, s3fsys, store, inflight, handled, mainErr>>

\* the server starts a goroutine for an incoming request
Accept(w, req) ==
    /\ pc = "serving"
    /\ inflight[w] = NoRequest
    /\ inflight' = [inflight EXCEPT ![w] = req]
    /\ UNCHANGED <<pc, exitCode, bucket, prefix, s3fsys, store, last, handled, mainErr>>

\* the goroutine runs the handler chain and answers
Handle(w) ==
    /\ pc = "serving"
    /\ inflight[w] # NoRequest
    /\ LET out == ServeHTTP(inflight[w], prefix, store)
       IN  /\ last' = [req |-> inflight[w], resp |-> out.resp]
           /\ prefix' = out.prefix
    /\ inflight' = [inflight EXCEPT ![w] = NoRequest]
    /\ handled' = 1
    /\ UNCHANGED <<pc, exitCode, bucket, s3fsys, store, mainErr>>

Startup == ParseFlags \/ CheckBucket \/ NewSession \/ StatRoot \/ ListenAndServe

Next == Startup \/ (\E req \in Requests : Serve(req)) \/ Deliver

Spec == Init /\ [][Next]_vars

NextConc ==
    \/ Startup
    \/ \E w \in Workers, req \in ConcRequests : Accept(w, req)
    \/ \E w \in Workers : Handle(w)

\* the concurrent specification starts from a bucket whose listing is empty,
\* has one entry, or has two entries out of order
ConcListings == {<<>>, <<"1.0.0">>, <<"2.0.0", "1.0.0">>}

InitConc == Init /\ store.listing \in ConcListings

SpecConc == InitConc /\ [][NextConc]_vars

----------------------------------------------------------------------------
(* Properties.  They are read off the last completed exchange.             *)

\* the last exchange answered a GET request that the router sent to `route`
LastGet(route) ==
    /\ last.req.method = "GET"
    /\ MatchRoute(last.req.path).route = route

LastM == MatchRoute(last.req.path).m

DotSegs == {".", ".."}

HasBytes(body) == \E i \in 1..Len(body) : body[i].kind = "bytes"

RegistryHandlers ==
    {"httpGetServiceDiscovery", "httpGetVersions", "httpGetDownloadURL", "httpGetModule"}

\* the request of the protocol's download step for an identity
LocateRequest(ns, nm, pr, v) ==
    [method |-> "GET", path |-> ModuleBaseSegs \o <<ns, nm, pr, v, "download">>]

\* the documented place of an artifact: prefix/namespace/name/provider/version/name.tgz
DocumentedArtifact(ns, nm, pr, v) ==
    Join(<<prefix, Str(ns), Str(nm), Str(pr), Str(v), Str(nm \o ".tgz")>>)

\* C1: when a client fetches the redirect value the Download Locator returns
\* for an identity, the Module Content Server reads the object at
\* prefix/namespace/name/provider/version/name.tgz, and the fetch answers 200
\* whenever the versions request lists that version and the artifact is stored
\* at the documented path.
C1_RedirectReadsDocumentedObject ==
    \A v \in VersionNames :
        LET ns == Module[1]
            nm == Module[2]
            pr == Module[3]
            redirect == ServeHTTP(LocateRequest(ns, nm, pr, v), prefix, store)
                            .resp.headers["X-Terraform-Get"]
            documented == DocumentedArtifact(ns, nm, pr, v)
            listed == FSReadDir(store, Join(<<prefix, Str(ns), Str(nm), Str(pr)>>))
        IN  (last.req.method = "GET" /\ "/" \o JoinSegs(last.req.path) = redirect)
            => /\ last.resp.ops # <<>>
               /\ last.resp.ops[1] = StorageOp("Open", documented)
               /\ (/\ listed.err = ""
                   /\ v \in Range(listed.entries)
                   /\ KeyOf(documented) \in store.objects)
                  => last.resp.status = 200

\* the document the claim C2 describes for the listing e1..en
VersionsDocument(entries) ==
    [modules |-> JArray(<<[versions |->
        JArray([i \in 1..Len(entries) |-> [version |-> entries[i]]])]>>)]

\* the path a versions request lists
ListedPath == Join(<<prefix, Str(LastM.namespace), Str(LastM.name), Str(LastM.provider)>>)

\* C2: when the listing of the module/provider path succeeds with e1..en, the
\* versions request answers 200 with one element in "modules" whose "versions"
\* is the sequence {"version": name(e1)}, ..., {"version": name(en)}, in the
\* listing's order, nothing sorted, nothing dropped.
C2_VersionsMirrorListing ==
    (LastGet("versions") /\ FSReadDir(store, ListedPath).err = "")
    => /\ last.resp.status = 200
       /\ last.resp.body = <<JsonChunk(VersionsDocument(FSReadDir(store, ListedPath).entries))>>

\* the header value the claim C3 gives
ExpectedRedirect(m) ==
    "/download/" \o m.namespace \o "/" \o m.name \o "/" \o m.provider \o "/"
        \o m.version \o "/" \o m.name \o ".tgz"

AllPresent(m) == m.namespace # "" /\ m.name # "" /\ m.provider # "" /\ m.version # ""

LocateAnswer(m) ==
    /\ last.resp.ops = <<>>
    /\ last.resp.status = 204
    /\ last.resp.body = <<>>
    /\ last.resp.headers["X-Terraform-Get"] = ExpectedRedirect(m)

\* C3 as stated: for every identity with all four fields present the
\* download-location request touches no storage and answers 204, empty body,
\* X-Terraform-Get = /download/{namespace}/{name}/{provider}/{version}/{name}.tgz.
C3_LocateAnyIdentity ==
    (LastGet("locate") /\ AllPresent(LastM)) => LocateAnswer(LastM)

\* C3 amended: the same, for identities none of whose four fields is "." or "..".
C3_LocatePlainIdentity ==
    (/\ LastGet("locate")
     /\ AllPresent(LastM)
     /\ {LastM.namespace, LastM.name, LastM.provider, LastM.version} \cap DotSegs = {})
    => LocateAnswer(LastM)

\* a location request for a plain identity whose artifact the bucket does not hold
C3_Witness ==
    /\ LastGet("locate")
    /\ {LastM.namespace, LastM.name, LastM.provider, LastM.version} \cap DotSegs = {}
    /\ last.resp.status = 204
    /\ store.objects = ExtraObjects

\* the key of a /download/<key> request
LastKey == Tail(last.req.path)

\* C4 as stated: GET /download/<key> answers 200 with the object's bytes when
\* an object is stored at <key>, and 404 without artifact bytes when none is.
C4_FetchAnyKey ==
    LastGet("module")
    => /\ LastKey \in store.objects
          => (last.resp.status = 200 /\ last.resp.body = <<Bytes(LastKey)>>)
       /\ LastKey \notin store.objects
          => (last.resp.status = 404 /\ ~HasBytes(last.resp.body))

\* C4 amended: for a key without empty, "." or ".." segments whose last
\* segment is not index.html: 200 with the object's bytes when an object is
\* stored at the key; 404 without artifact bytes when the key is neither an
\* object nor a directory.
C4_FetchPlainKey ==
    (/\ LastGet("module")
     /\ PlainSegs(LastKey)
     /\ LastKey[Len(LastKey)] # "index.html")
    => /\ LastKey \in store.objects
          => (last.resp.status = 200 /\ last.resp.body = <<Bytes(LastKey)>>)
       /\ (LastKey \notin store.objects /\ LastKey \notin store.dirs)
          => (last.resp.status = 404 /\ ~HasBytes(last.resp.body))

\* an artifact fetched with 200 and a missing key answered with 404 are both
\* reachable; the witness is the fetch of a stored artifact
C4_Witness ==
    /\ LastGet("module")
    /\ PlainSegs(LastKey)
    /\ Len(LastKey) = 5
    /\ LastKey \in store.objects
    /\ last.resp.status = 200

\* C5: when the listing of a versions request fails, the answer is status 500
\* with the error message as its whole body: no version-list document follows.
C5_ListingErrorBodyIsMessage ==
    (LastGet("versions") /\ FSReadDir(store, ListedPath).err # "")
    => /\ last.resp.status = 500
       /\ last.resp.body = <<TextChunk(FSReadDir(store, ListedPath).err)>>
       /\ last.resp.headers["Content-Type"] # "application/json"

\* prefix, namespace, name, provider joined by single slashes
ExpectedModulePath(m) ==
    (IF Text(prefix) = "" THEN "" ELSE Text(prefix) \o "/")
        \o m.namespace \o "/" \o m.name \o "/" \o m.provider

\* C6 as stated: for every prefix and every triple of non-empty fields the
\* versions request lists exactly prefix/namespace/name/provider.
C6_ListsJoinedPathAnyTriple ==
    (/\ LastGet("versions")
     /\ LastM.namespace # "" /\ LastM.name # "" /\ LastM.provider # "")
    => last.resp.ops = <<[op |-> "ReadDir", path |-> ExpectedModulePath(LastM)]>>

\* C6 amended: the same, for a prefix without empty, "." or ".." segments and
\* fields that are neither "." nor "..".
C6_ListsJoinedPathPlainTriple ==
    (/\ LastGet("versions")
     /\ LastM.namespace # "" /\ LastM.name # "" /\ LastM.provider # ""
     /\ {LastM.namespace, LastM.name, LastM.provider} \cap DotSegs = {}
     /\ ~prefix.abs /\ PlainSegs(prefix.segs))
    => last.resp.ops = <<[op |-> "ReadDir", path |-> ExpectedModulePath(LastM)]>>

\* a versions request for a plain triple under the prefix "modules"
C6_Witness ==
    /\ LastGet("versions")
    /\ {LastM.namespace, LastM.name, LastM.provider} \cap DotSegs = {}
    /\ prefix.segs = <<"modules">>
    /\ last.resp.ops # <<>>

\* C7 as stated: a request with a method other than GET on one of the five
\* routes never reaches a registry handler.
C7_OnlyGetReachesHandlers ==
    (/\ last.req.method \notin {"", "GET"}
     /\ MatchRoute(last.req.path).route # "none")
    => last.resp.handler \notin RegistryHandlers

\* C7 amended: a request with a method other than GET and HEAD on one of the
\* five routes never reaches a registry handler (it is answered 405), and a
\* HEAD request is dispatched to the handler of the GET route.
C7_OnlyGetAndHeadReachHandlers ==
    /\ (/\ last.req.method \notin {"", "GET", "HEAD"}
        /\ MatchRoute(last.req.path).route # "none")
       => (last.resp.handler = "methodNotAllowed" /\ last.resp.status = 405)
    /\ (/\ last.req.method = "HEAD"
        /\ MatchRoute(last.req.path).route # "none")
       => last.resp.handler \in RegistryHandlers

\* a POST on the versions route, refused
C7_Witness ==
    /\ last.req.method = "POST"
    /\ MatchRoute(last.req.path).route = "versions"
    /\ last.resp.status = 405

\* the process-wide state the handlers read
Globals == <<bucket, prefix, s3fsys, store>>

\* C8: no handler changes the globals or the bucket, so under every
\* interleaving of concurrently handled requests each response is the one the
\* handler chain gives for that request on the unchanged state, and a request
\* answered twice in a row gets the same response.
C8_HandlersLeaveStateAlone ==
    [][pc = "serving"
       => /\ Globals' = Globals
          /\ last'.req # NoRequest
             => last'.resp = ServeHTTP(last'.req, prefix', store').resp
          /\ last'.req = last.req => last'.resp = last.resp]_vars

\* both goroutines are handling requests, one of them a repeat of the request
\* answered last
C8_Witness ==
    /\ pc = "serving"
    /\ last.req.method = "GET"
    /\ \E w1, w2 \in Workers :
          /\ w1 # w2
          /\ inflight[w1] # NoRequest
          /\ inflight[w2] = last.req

\* C9: GET / and GET /.well-known/terraform.json answer 200 with the body
\* {"modules.v1": "/terraform/modules/v1"}, whatever the prefix, the bucket
\* and its contents, and without a storage operation.
C9_DiscoveryIsStatic ==
    LastGet("discovery")
    => /\ last.resp.status = 200
       /\ last.resp.body = <<JsonChunk([modulesV1 |-> "/terraform/modules/v1"])>>
       /\ last.resp.ops = <<>>

\* the well-known discovery request under a non-empty prefix
C9_Witness ==
    /\ LastGet("discovery")
    /\ last.req.path = <<".well-known", "terraform.json">>
    /\ prefix.segs # <<>>
    /\ last.resp.status = 200

\* C10: requests are handled only while serving, and serving starts only
\* after a non-empty bucket was configured and the stat of the storage root
\* through the constructed handle succeeded; a missing bucket, a failed
\* session or a failed stat ends the process with a failure status before any
\* request is handled; prefix and handle stay as assigned once serving starts.
C10_StartupOrdering ==
    /\ [](/\ (pc = "serving" \/ handled # 0 \/ last # NoExchange)
             => (bucket # "" /\ s3fsys = "s3fs" /\ mainErr = "nil")
          /\ pc = "exited" => (handled = 0 /\ last = NoExchange)
          /\ (pc = "exited" /\ (bucket = "" \/ mainErr \in {"session", "stat"}))
             => exitCode = 1)
    /\ [][/\ pc' = "serving" => pc \in {"listen", "serving"}
          /\ pc = "serving" => (pc' = "serving" /\ prefix' = prefix /\ s3fsys' = s3fsys)
          /\ (pc \in {"session", "stat"} /\ mainErr' \notin {"nil", "unset"})
             => pc' = "exited"
          /\ (pc = "bucket" /\ bucket = "") => pc' = "exited"]_vars

\* a request has been handled by a server that started
C10_Witness == pc = "serving" /\ handled = 1 /\ mainErr = "nil"

====
